---- MODULE Spec2Model ----
(***************************************************************************)
(* Model of the snake game of client/src/pages/Home.tsx: the mutable game  *)
(* state held in gameStateRef, the React state derived from it, the timer  *)
(* callback updateGame, the keyboard handler, the pause button and the     *)
(* reset button.                                                           *)
(***************************************************************************)
EXTENDS Integers, Sequences, FiniteSets, TLC

\* ---------------------------------------------------------------- constants
GRID_SIZE == 20

\* Longest snake the model lets grow (a growth tick past it is not taken).
MaxLen == 5

Pos(px, py) == [x |-> px, y |-> py]

\* Outcomes of Math.random() the model samples for a new food cell.
FoodCells == {Pos(15, 15), Pos(15, 16), Pos(16, 16), Pos(16, 15), Pos(16, 14)}

\* Cells at which the modelled player presses direction keys: the start row's
\* crossing with column 15 and the 2x2 block of the first food cell. From them
\* the snake reaches row 10, rows 15-16 and columns 15-16, wraps over all four
\* edges, and can close a loop on itself.
TurnCells == {Pos(15, 10), Pos(15, 15), Pos(15, 16), Pos(16, 16), Pos(16, 15)}

\* Values localStorage may hold for "snakeHighScore" when the page mounts.
SavedScores == {0, 30}

DirectionKeys == {"arrowup", "w", "arrowdown", "s", "arrowleft", "a", "arrowright", "d"}

\* ---------------------------------------------------------------- state
VARIABLES
    snake,           \* gameStateRef.current.snake, head first
    food,            \* gameStateRef.current.food
    direction,       \* gameStateRef.current.direction
    nextDirection,   \* gameStateRef.current.nextDirection
    score,           \* gameStateRef.current.score
    gameOver,        \* gameStateRef.current.gameOver
    isPaused,        \* gameStateRef.current.isPaused
    gameState,       \* React state: the scalar fields of the last snapshot
    highScore,       \* React state highScore (and the localStorage item)
    loopHighScore,   \* highScore as seen by the updateGame the timer runs
    hung,            \* the page is inside a generateFood loop that cannot exit
    lastOp,          \* history: the callback that ran last and how it returned
    accepted         \* history: the last two direction keys that passed the axis
                     \* test since the last tick that committed a direction

vars == <<snake, food, direction, nextDirection, score, gameOver, isPaused,
          gameState, highScore, loopHighScore, hung, lastOp, accepted>>

\* The fields of GameState (interface GameState).
refVars == <<snake, food, direction, nextDirection, score, gameOver, isPaused>>

Op(name, arg) == [op |-> name, arg |-> arg]

\* The fields a shallow copy { ...state } holds by value.
Snapshot(sc, over, paused) == [score |-> sc, gameOver |-> over, isPaused |-> paused]

\* Variant: the test looks at the head only.
OnSnakeHeadOnly(s, c) == s[1].x = c.x /\ s[1].y = c.y

\* Variant: the test skips the tail cell.
OnSnakeBody(s, c) == \E i \in 1..(Len(s) - 1) : s[i].x = c.x /\ s[i].y = c.y

\* Variant: the test runs on the snake after the new head was added to it.
OnSnakeAfterUnshift(s, c) ==
    \E i \in 1..(Len(s) + 1) : (<<c>> \o s)[i].x = c.x /\ (<<c>> \o s)[i].y = c.y

\* snake.some(segment => segment.x === c.x && segment.y === c.y)
OnSnake(s, c) == \E i \in 1..Len(s) : s[i].x = c.x /\ s[i].y = c.y

Init ==
    /\ snake = <<Pos(10, 10)>>
    /\ food = Pos(15, 15)
    /\ direction = Pos(1, 0)
    /\ nextDirection = Pos(1, 0)
    /\ score = 0
    /\ gameOver = FALSE
    /\ isPaused = FALSE
    /\ gameState = Snapshot(0, FALSE, FALSE)
    /\ highScore \in SavedScores
    /\ loopHighScore = highScore
    /\ hung = FALSE
    /\ lastOp = Op("mount", Pos(0, 0))
    /\ accepted = <<>>

\* ---------------------------------------------------------------- food
\* Variant: the first sample is returned without the rejection loop.
generateFoodAnywhere(s) == FoodCells

\* The cells the rejection loop of generateFood can return for snake s.
generateFood(s) == {c \in FoodCells : ~OnSnake(s, c)}

\* Every cell of the grid is on snake s: no sample ends the loop of generateFood.
GridFull(s) ==
    \A cx \in 0..(GRID_SIZE - 1) : \A cy \in 0..(GRID_SIZE - 1) : OnSnake(s, Pos(cx, cy))

\* ---------------------------------------------------------------- tick
\* The % of JavaScript: the result takes the sign of the dividend.
JsMod(a, n) == IF a >= 0 THEN a % n ELSE 0 - ((0 - a) % n)

\* Variant: GRID_SIZE is not added before the %.
NewHeadNoShift(head, dir) ==
    Pos(JsMod(head.x + dir.x, GRID_SIZE), JsMod(head.y + dir.y, GRID_SIZE))

\* Variant: no % at all.
NewHeadNoWrap(head, dir) == Pos(head.x + dir.x, head.y + dir.y)

\* (head + direction + GRID_SIZE) % GRID_SIZE on each axis.
NewHead(head, dir) ==
    Pos(JsMod(head.x + dir.x + GRID_SIZE, GRID_SIZE),
        JsMod(head.y + dir.y + GRID_SIZE, GRID_SIZE))

Unshift(s, c) == <<c>> \o s

\* Variant: the cell behind the head is removed instead of the last one.
PopNeck(s) == <<s[1]>> \o SubSeq(s, 3, Len(s))

\* Variant: the tail is not removed.
PopNothing(s) == s

Pop(s) == SubSeq(s, 1, Len(s) - 1)

\* Variant: the early return tests gameOver only.
HaltedIgnoringPause(over, paused) == over

\* Variant: the early return tests isPaused only.
HaltedIgnoringGameOver(over, paused) == paused

\* if (state.gameOver || state.isPaused) return;
Halted(over, paused) == over \/ paused

\* updateGame, with placed the cells generateFood can return once the new head
\* is on the snake, and cap the longest snake that still grows.
updateGameOn(placed, cap) ==
    IF Halted(gameOver, isPaused)
    THEN /\ lastOp' = Op("tick:skipped", Pos(0, 0))
         /\ UNCHANGED <<refVars, gameState, highScore, loopHighScore, hung, accepted>>
    ELSE LET newHead == NewHead(snake[1], nextDirection) IN
         /\ direction' = nextDirection
         /\ accepted' = <<>>
         /\ UNCHANGED <<nextDirection, isPaused, loopHighScore>>
         /\ IF OnSnake(snake, newHead)
            THEN /\ gameOver' = TRUE
                 /\ highScore' = IF score > loopHighScore THEN score ELSE highScore
                 /\ gameState' = Snapshot(score, TRUE, isPaused)
                 /\ lastOp' = Op("tick:collision", Pos(0, 0))
                 /\ UNCHANGED <<snake, food, score, hung>>
            ELSE IF newHead.x = food.x /\ newHead.y = food.y
            THEN /\ Len(snake) < cap
                 /\ snake' = Unshift(snake, newHead)
                 /\ score' = score + 10
                 /\ IF GridFull(snake')
                    THEN /\ hung' = TRUE
                         /\ lastOp' = Op("tick:hung", Pos(0, 0))
                         /\ UNCHANGED <<food, gameState>>
                    ELSE /\ food' \in placed
                         /\ gameState' = Snapshot(score', gameOver, isPaused)
                         /\ lastOp' = Op("tick:ate", Pos(0, 0))
                         /\ UNCHANGED hung
                 /\ UNCHANGED <<gameOver, highScore>>
            ELSE /\ snake' = Pop(Unshift(snake, newHead))
                 /\ gameState' = Snapshot(score, gameOver, isPaused)
                 /\ lastOp' = Op("tick:moved", Pos(0, 0))
                 /\ UNCHANGED <<food, score, gameOver, highScore, hung>>

\* The snake as generateFood sees it on a growth tick: new head already added.
Grown == Unshift(snake, NewHead(snake[1], nextDirection))

updateGame == updateGameOn(generateFood(Grown), MaxLen)

\* ---------------------------------------------------------------- keyboard
\* Vectors c and d lie on one axis.
SameAxis(c, d) == (d.x # 0 /\ c.x # 0) \/ (d.y # 0 /\ c.y # 0)

\* The vector a direction key asks for.
KeyVector(key) ==
    IF key \in {"arrowup", "w"} THEN Pos(0, -1)
    ELSE IF key \in {"arrowdown", "s"} THEN Pos(0, 1)
    ELSE IF key \in {"arrowleft", "a"} THEN Pos(-1, 0)
    ELSE IF key \in {"arrowright", "d"} THEN Pos(1, 0)
    ELSE Pos(0, 0)

\* Variant: the key is judged against the pending nextDirection.
KeyTurnOnPending(key, dir, next) ==
    IF key \in {"arrowup", "w"} THEN (IF next.y = 0 THEN Pos(0, -1) ELSE next)
    ELSE IF key \in {"arrowdown", "s"} THEN (IF next.y = 0 THEN Pos(0, 1) ELSE next)
    ELSE IF key \in {"arrowleft", "a"} THEN (IF next.x = 0 THEN Pos(-1, 0) ELSE next)
    ELSE IF key \in {"arrowright", "d"} THEN (IF next.x = 0 THEN Pos(1, 0) ELSE next)
    ELSE next

\* Variant: a key is taken only while no turn is pending.
KeyTurnFirstWins(key, dir, next) ==
    IF next # dir THEN next
    ELSE IF key \in {"arrowup", "w"} THEN (IF dir.y = 0 THEN Pos(0, -1) ELSE next)
    ELSE IF key \in {"arrowdown", "s"} THEN (IF dir.y = 0 THEN Pos(0, 1) ELSE next)
    ELSE IF key \in {"arrowleft", "a"} THEN (IF dir.x = 0 THEN Pos(-1, 0) ELSE next)
    ELSE IF key \in {"arrowright", "d"} THEN (IF dir.x = 0 THEN Pos(1, 0) ELSE next)
    ELSE next

\* Variant: a key is taken without the axis test.
KeyTurnAlways(key, dir, next) ==
    IF key \in DirectionKeys THEN KeyVector(key) ELSE next

\* nextDirection after a direction key, given the current direction dir.
KeyTurn(key, dir, next) ==
    IF key \in {"arrowup", "w"} THEN (IF dir.y = 0 THEN Pos(0, -1) ELSE next)
    ELSE IF key \in {"arrowdown", "s"} THEN (IF dir.y = 0 THEN Pos(0, 1) ELSE next)
    ELSE IF key \in {"arrowleft", "a"} THEN (IF dir.x = 0 THEN Pos(-1, 0) ELSE next)
    ELSE IF key \in {"arrowright", "d"} THEN (IF dir.x = 0 THEN Pos(1, 0) ELSE next)
    ELSE next

\* History of a pause toggle: how many toggles ran back to back (1 or 2) and
\* the game state before the first of them.
ToggleRun ==
    IF lastOp.op \in {"space", "pause"} /\ lastOp.arg.n = 1
    THEN [n |-> 2, start |-> lastOp.arg.start]
    ELSE [n |-> 1, start |-> refVars]

handleKeyPress(key) ==
    IF key \in DirectionKeys
    THEN /\ nextDirection' = KeyTurn(key, direction, nextDirection)
         /\ lastOp' = Op("key", KeyVector(key))
         /\ accepted' = IF SameAxis(KeyVector(key), direction) THEN accepted
                        ELSE IF accepted = <<>> THEN <<KeyVector(key)>>
                        ELSE <<accepted[Len(accepted)], KeyVector(key)>>
         /\ UNCHANGED <<snake, food, direction, score, gameOver, isPaused,
                        gameState, highScore, loopHighScore, hung>>
    ELSE IF key = " "
    THEN /\ isPaused' = ~isPaused
         /\ gameState' = Snapshot(score, gameOver, isPaused')
         /\ lastOp' = Op("space", ToggleRun)
         /\ UNCHANGED <<snake, food, direction, nextDirection, score, gameOver,
                        highScore, loopHighScore, hung, accepted>>
    ELSE UNCHANGED vars

\* ---------------------------------------------------------------- buttons
\* Variant: isPaused is carried over into the new state.
resetGameKeepingPause ==
    /\ snake' = <<Pos(10, 10)>>
    /\ food' = Pos(15, 15)
    /\ direction' = Pos(1, 0)
    /\ nextDirection' = Pos(1, 0)
    /\ score' = 0
    /\ gameOver' = FALSE
    /\ isPaused' = isPaused
    /\ gameState' = Snapshot(0, FALSE, isPaused)
    /\ lastOp' = Op("reset", Pos(0, 0))
    /\ accepted' = <<>>
    /\ UNCHANGED <<highScore, loopHighScore, hung>>

\* Variant: score is carried over into the new state.
resetGameKeepingScore ==
    /\ snake' = <<Pos(10, 10)>>
    /\ food' = Pos(15, 15)
    /\ direction' = Pos(1, 0)
    /\ nextDirection' = Pos(1, 0)
    /\ score' = score
    /\ gameOver' = FALSE
    /\ isPaused' = FALSE
    /\ gameState' = Snapshot(score, FALSE, FALSE)
    /\ lastOp' = Op("reset", Pos(0, 0))
    /\ accepted' = <<>>
    /\ UNCHANGED <<highScore, loopHighScore, hung>>

resetGame ==
    /\ snake' = <<Pos(10, 10)>>
    /\ food' = Pos(15, 15)
    /\ direction' = Pos(1, 0)
    /\ nextDirection' = Pos(1, 0)
    /\ score' = 0
    /\ gameOver' = FALSE
    /\ isPaused' = FALSE
    /\ gameState' = Snapshot(0, FALSE, FALSE)
    /\ lastOp' = Op("reset", Pos(0, 0))
    /\ accepted' = <<>>
    /\ UNCHANGED <<highScore, loopHighScore, hung>>

\* Variant: the button only ever pauses.
togglePauseOnly ==
    /\ lastOp' = Op("pause", ToggleRun)
    /\ UNCHANGED <<hung, accepted>>
    /\ IF ~gameState.gameOver
       THEN /\ isPaused' = TRUE
            /\ gameState' = Snapshot(score, gameOver, isPaused')
            /\ UNCHANGED <<snake, food, direction, nextDirection, score, gameOver,
                           highScore, loopHighScore>>
       ELSE UNCHANGED <<refVars, gameState, highScore, loopHighScore>>

togglePause ==
    /\ lastOp' = Op("pause", ToggleRun)
    /\ UNCHANGED <<hung, accepted>>
    /\ IF ~gameState.gameOver
       THEN /\ isPaused' = ~isPaused
            /\ gameState' = Snapshot(score, gameOver, isPaused')
            /\ UNCHANGED <<snake, food, direction, nextDirection, score, gameOver,
                           highScore, loopHighScore>>
       ELSE UNCHANGED <<refVars, gameState, highScore, loopHighScore>>

\* ---------------------------------------------------------------- system
\* The interval timer fires.
Tick == ~hung /\ updateGame

\* The player presses a direction key (only with the head on a turn cell).
DirectionKey ==
    /\ ~hung
    /\ \E key \in DirectionKeys : snake[1] \in TurnCells /\ handleKeyPress(key)

\* The player presses the space bar.
SpaceKey == ~hung /\ handleKeyPress(" ")

\* The player clicks the pause button.
PauseButton == ~hung /\ togglePause

\* The player clicks the reset button.
ResetButton == ~hung /\ resetGame

Next == Tick \/ DirectionKey \/ SpaceKey \/ PauseButton \/ ResetButton

Spec == Init /\ [][Next]_vars

\* ---------------------------------------------------------------- full grid
\* A player who fills the grid. The direction this player wants next: along
\* row 10 to column 15 and down to the first bean; from then on to the right
\* until the cell on the right is on the snake, then one cell down, and right
\* again. Every row is swept over the edge and left one column earlier.
RouteDir(s, dir) ==
    IF Len(s) = 1 THEN (IF s[1].x = 15 THEN Pos(0, 1) ELSE Pos(1, 0))
    ELSE IF dir = Pos(0, 1) THEN Pos(1, 0)
    ELSE IF OnSnake(s, NewHead(s[1], Pos(1, 0))) THEN Pos(0, 1)
    ELSE Pos(1, 0)

\* generateFood when Math.random() yields the cell this player enters next
\* (s is the grown snake, nextDirection the direction the tick committed).
generateFoodAhead(s) ==
    {c \in {NewHead(s[1], RouteDir(s, nextDirection))} : ~OnSnake(s, c)}

\* The player presses the key of the wanted direction before the next tick.
FillKey ==
    /\ ~hung
    /\ nextDirection # RouteDir(snake, direction)
    /\ \E key \in DirectionKeys :
          /\ KeyVector(key) = RouteDir(snake, direction)
          /\ handleKeyPress(key)

\* The interval timer fires once the wanted direction is pending.
FillTick ==
    /\ ~hung
    /\ nextDirection = RouteDir(snake, direction)
    /\ updateGameOn(generateFoodAhead(Grown), GRID_SIZE * GRID_SIZE)

NextFill == FillTick \/ FillKey

SpecFill == Init /\ [][NextFill]_vars

\* ---------------------------------------------------------------- properties
\* Vocabulary of the properties, stated independently of the operators above.
Running == ~gameOver /\ ~isPaused

Member(s, c) == \E i \in 1..Len(s) : s[i] = c

WrapCoord(v) == IF v < 0 THEN v + GRID_SIZE ELSE IF v >= GRID_SIZE THEN v - GRID_SIZE ELSE v

Step(c, d) == Pos(WrapCoord(c.x + d.x), WrapCoord(c.y + d.y))

TickStep ==
    lastOp'.op \in {"tick:skipped", "tick:collision", "tick:ate", "tick:moved", "tick:hung"}

\* C1: a tick of a running game whose wrapped new head lies on the snake as it
\* is before the move (tail cell included) sets gameOver and leaves snake, food
\* and score exactly as they were.
C1_SelfCollisionKeepsSnake ==
    [][(TickStep /\ Running /\ Member(snake, Step(snake[1], nextDirection)))
         => (gameOver' /\ snake' = snake /\ food' = food /\ score' = score)]_vars

\* A game just ended by the head running into the tail cell of a snake of 4.
C1_Witness ==
    /\ lastOp.op = "tick:collision"
    /\ gameOver
    /\ Len(snake) = 4
    /\ Step(snake[1], direction) = snake[Len(snake)]

\* C2: while gameOver is false all snake cells are pairwise distinct.
C2_NoSelfOverlap ==
    ~gameOver => \A i, j \in 1..Len(snake) : i # j => snake[i] # snake[j]

\* A live snake of 4 cells that has just turned next to its own body.
C2_Witness ==
    /\ ~gameOver
    /\ lastOp.op = "tick:moved"
    /\ Len(snake) >= 4
    /\ snake[1].x # snake[3].x
    /\ snake[1].y # snake[3].y
    /\ Member(snake, Step(snake[1], Pos(0 - direction.y, direction.x)))

\* C3: the food cell is never on the snake, and the cell placed by a growth
\* tick is off the grown snake and differs from the cell just eaten.
C3_FoodValidity ==
    /\ [](~Member(snake, food))
    /\ [][(TickStep /\ Running /\ Step(snake[1], nextDirection) = food)
            => (~Member(snake', food') /\ food' # food)]_vars

\* Food placed after the third growth, with three sampled cells under the snake.
C3_Witness ==
    /\ lastOp.op = "tick:ate"
    /\ score = 30
    /\ Cardinality({c \in FoodCells : Member(snake, c)}) >= 3

\* C4: highScore changes only on the tick that ends a game whose score is
\* above the highScore held then; it never decreases, and after a game-over it
\* is at least the score of that game.
C4_HighScoreRule ==
    [][/\ highScore' # highScore
            => (lastOp'.op = "tick:collision" /\ score > highScore)
       /\ highScore' >= highScore
       /\ (gameOver' /\ ~gameOver) => highScore' >= score']_vars

\* C5: with gameOver true, a pause toggle from the space key or from the pause
\* button leaves every field of the game state unchanged.
C5_PauseIgnoredWhenOver ==
    [][(gameOver /\ lastOp'.op \in {"space", "pause"}) => UNCHANGED refVars]_vars

\* C6: a running tick whose new head is the food cell prepends the head to the
\* whole snake and adds 10 to score; any other tick keeps length and score.
C6_GrowthAndScoring ==
    [][TickStep =>
         IF Running /\ Step(snake[1], nextDirection) = food
                    /\ ~Member(snake, Step(snake[1], nextDirection))
         THEN /\ snake' = <<Step(snake[1], nextDirection)>> \o snake
              /\ score' = score + 10
         ELSE /\ Len(snake') = Len(snake)
              /\ score' = score]_vars

\* The first bean of a game has just been eaten.
C6_Witness ==
    /\ lastOp.op = "tick:ate"
    /\ score = 10
    /\ snake[1] = Pos(15, 15)
    /\ Len(snake) = 2

C8_ReversalRejection ==
    [][(lastOp'.op = "key") =>
         /\ nextDirection' = IF SameAxis(lastOp'.arg, direction)
                             THEN nextDirection ELSE lastOp'.arg
         /\ UNCHANGED <<direction, snake, food, score, isPaused, gameOver>>]_vars

\* Left was pressed while moving right with a turn down pending: rejected.
C8_Witness ==
    /\ lastOp.op = "key"
    /\ lastOp.arg = Pos(-1, 0)
    /\ direction = Pos(1, 0)
    /\ nextDirection = Pos(0, 1)

\* C9: a tick with isPaused true leaves every field of the game state
\* unchanged; the pending nextDirection is not committed.
C9_PausedTickNoOp ==
    [][(TickStep /\ isPaused) => UNCHANGED refVars]_vars

\* A tick has run on a paused live game that has a turn pending.
C9_Witness ==
    /\ lastOp.op = "tick:skipped"
    /\ isPaused
    /\ ~gameOver
    /\ nextDirection # direction

\* C10: once gameOver is true only resetGame makes it false again, and a tick
\* in that state leaves snake, food, direction, score and gameOver unchanged.
C10_GameOverTerminal ==
    [][gameOver =>
         /\ gameOver' \/ lastOp'.op = "reset"
         /\ TickStep => UNCHANGED <<snake, food, direction, score, gameOver>>]_vars

\* A tick has run on a finished, unpaused game that has a turn pending.
C10_Witness ==
    /\ lastOp.op = "tick:skipped"
    /\ gameOver
    /\ ~isPaused
    /\ nextDirection # direction

Opposite(d) == Pos(0 - d.x, 0 - d.y)

Neighbours(a, b) ==
    \E d \in {Pos(1, 0), Pos(-1, 0), Pos(0, 1), Pos(0, -1)} : Step(a, d) = b

\* C11: resetGame, from any state, gives snake [(10,10)], food (15,15),
\* direction = nextDirection = (1,0), score 0, not paused, not over, and leaves
\* highScore alone; a tick right after it moves the fresh snake to (11,10).
C11_ResetCanonical ==
    [][/\ (lastOp'.op = "reset")
          => /\ snake' = <<Pos(10, 10)>>
             /\ food' = Pos(15, 15)
             /\ direction' = Pos(1, 0)
             /\ nextDirection' = Pos(1, 0)
             /\ score' = 0
             /\ ~isPaused'
             /\ ~gameOver'
             /\ highScore' = highScore
       /\ (lastOp.op = "reset" /\ TickStep)
          => /\ snake' = <<Pos(11, 10)>>
             /\ food' = Pos(15, 15)
             /\ direction' = Pos(1, 0)
             /\ score' = 0
             /\ ~gameOver']_vars

\* A reset has just replaced a finished game that had raised highScore.
C11_Witness ==
    /\ lastOp.op = "reset"
    /\ highScore = 40
    /\ loopHighScore = 0

\* C12: food placement always returns: after a growth tick the snake is
\* shorter than GRID_SIZE * GRID_SIZE, so a free cell exists and no tick is
\* left inside the loop of generateFood.
C12_FoodPlacementTerminates ==
    ~hung /\ Len(snake) < GRID_SIZE * GRID_SIZE

\* C13: direction changes only in a tick of a running game (resetGame aside);
\* the direction that tick commits is the last candidate accepted since the
\* previous committing tick, or the previous direction when there was none.
C13_IntentOrdering ==
    [][/\ (direction' # direction)
          => ((TickStep /\ Running) \/ lastOp'.op = "reset")
       /\ (TickStep /\ Running)
          => direction' = IF accepted = <<>> THEN direction
                          ELSE accepted[Len(accepted)]]_vars

\* Two different candidates were accepted in one window; the later is pending.
C13_Witness ==
    /\ lastOp.op = "key"
    /\ Len(accepted) = 2
    /\ accepted[1] # accepted[2]
    /\ nextDirection = accepted[2]
    /\ ~gameOver
    /\ ~isPaused

\* C14: with gameOver false a pause toggle (space key or pause button) flips
\* isPaused and nothing else of the game state; two toggles back to back
\* restore the game state held before the first.
C14_TogglePause ==
    /\ [][(~gameOver /\ lastOp'.op \in {"space", "pause"})
            => /\ isPaused' = ~isPaused
               /\ UNCHANGED <<snake, food, direction, nextDirection, score,
                              gameOver>>]_vars
    /\ []((lastOp.op \in {"space", "pause"} /\ lastOp.arg.n = 2 /\ ~gameOver)
            => refVars = lastOp.arg.start)

\* The pause button ended a double toggle on a live game with a turn pending.
C14_Witness ==
    /\ lastOp.op = "pause"
    /\ lastOp.arg.n = 2
    /\ ~gameOver
    /\ ~isPaused
    /\ Len(snake) >= 2
    /\ nextDirection # direction

\* C15: every snake cell and the food cell have both coordinates in
\* 0..GRID_SIZE-1.
C15_CoordinateBounds ==
    /\ \A i \in 1..Len(snake) :
          snake[i].x \in 0..(GRID_SIZE - 1) /\ snake[i].y \in 0..(GRID_SIZE - 1)
    /\ food.x \in 0..(GRID_SIZE - 1)
    /\ food.y \in 0..(GRID_SIZE - 1)

\* A snake lying across the right edge after moving right from column 19 to 0.
C15_Witness ==
    /\ lastOp.op = "tick:moved"
    /\ direction = Pos(1, 0)
    /\ Len(snake) >= 2
    /\ snake[1].x = 0
    /\ snake[2].x = GRID_SIZE - 1

\* C16: nextDirection is always direction or perpendicular to it, never its
\* opposite; a tick never commits the opposite of the direction before it, and
\* the head it computes is never the second cell of the snake.
C16_NoReversal ==
    /\ [](nextDirection = direction \/ ~SameAxis(nextDirection, direction))
    /\ [][(TickStep /\ Running)
            => /\ direction' # Opposite(direction)
               /\ Len(snake) >= 2 => Step(snake[1], nextDirection) # snake[2]]_vars

\* The opposite of the current direction has just been pressed on a live snake
\* of 3 cells and was not taken.
C16_Witness ==
    /\ lastOp.op = "key"
    /\ lastOp.arg = Opposite(direction)
    /\ nextDirection = direction
    /\ Len(snake) = 3
    /\ ~gameOver
    /\ ~isPaused

\* C17: score = 10 * (length of snake - 1) in every state.
C17_ScoreIsLength == score = 10 * (Len(snake) - 1) /\ Len(snake) >= 1

\* Four beans eaten.
C17_Witness ==
    /\ score = 40
    /\ Len(snake) = 5
    /\ lastOp.op = "tick:ate"

\* C18: consecutive snake cells are neighbours on the torus.
C18_BodyContiguous ==
    \A i \in 1..(Len(snake) - 1) : Neighbours(snake[i], snake[i + 1])

\* A snake of 3 or more lying across the top edge.
C18_Witness ==
    /\ Len(snake) >= 3
    /\ snake[1].y = GRID_SIZE - 1
    /\ snake[2].y = 0
    /\ lastOp.op = "tick:moved"

====
